---- MODULE Spec2Model ----
(***************************************************************************)
(* ConversationManager (src/src/tools/tool-selection.ts): threads kept in  *)
(* a Storage, a sliding-window context assembler and a progressive         *)
(* compaction of old messages into a running summary.                      *)
(*                                                                         *)
(* A text is a sequence of lexemes: a lexeme is either a whitespace        *)
(* character (" ", "\n", "\t") or a run of non-whitespace characters.      *)
(* MemoryStorage keeps object references, so ThreadState objects live in   *)
(* a heap and the store maps a thread id to a heap address.                *)
(*                                                                         *)
(* Two further components have their own specifications at the end:        *)
(* ResponseValidator.generateValidated (src/unnamed/part_003) and the      *)
(* resilient_processor tool (src/src/tools/advanced-patterns.ts).          *)
(***************************************************************************)
EXTENDS Integers, Sequences, FiniteSets, TLC

VARIABLES
  cfg,      \* the ConversationManager's options (set by the constructor)
  heap,     \* ThreadState objects, by address 1..Len(heap)
  store,    \* MemoryStorage.store: thread id -> address, 0 = undefined
  procs,    \* one record per concurrent caller: its call and its position
  now,      \* Date.now()
  uuids,    \* number of uuid() values handed out
  hist,     \* history: messages ever appended, coverage of each summary
  validator, \* a ResponseValidator: maxRetries, metrics, its calls in flight
  tool      \* the resilient_processor tool: its call's loop position and effects

vars == <<cfg, heap, store, procs, now, uuids, hist, validator, tool>>

----------------------------------------------------------------------------
(* Bounds *)

MaxCalls == 2
MaxClock == 1
MaxCtxMsgs == 3
MaxTextLen == 9

(* Program constants *)

MessageOverhead == 5
MinChunk == 6

----------------------------------------------------------------------------
(* Arithmetic and array helpers *)

Max(a, b) == IF a >= b THEN a ELSE b
Min(a, b) == IF a <= b THEN a ELSE b

\* Array.prototype.slice's relative index: negative counts from the end.
RelativeIndex(i, len) == IF i < 0 THEN Max(len + i, 0) ELSE Min(i, len)

\* arr.slice(start, end)
slice(arr, start, end) ==
  SubSeq(arr, RelativeIndex(start, Len(arr)) + 1, RelativeIndex(end, Len(arr)))

\* arr.reverse()
reverse(arr) == [i \in 1..Len(arr) |-> arr[Len(arr) + 1 - i]]

----------------------------------------------------------------------------
(* Texts *)

IsSpace(c) == c \in {" ", "\n", "\t"}

RECURSIVE TrimStart(_)
TrimStart(t) ==
  IF t # <<>> /\ IsSpace(Head(t)) THEN TrimStart(Tail(t)) ELSE t

RECURSIVE TrimEnd(_)
TrimEnd(t) ==
  IF t # <<>> /\ IsSpace(t[Len(t)]) THEN TrimEnd(SubSeq(t, 1, Len(t) - 1)) ELSE t

\* String.prototype.trim
trim(t) == TrimEnd(TrimStart(t))

\* t.split(/\s+/).length: one piece more than there are maximal whitespace runs
\* ("" splits into [""], " a" into ["", "a"]).
SplitLength(t) ==
  1 + Cardinality({i \in 1..Len(t) :
                     IsSpace(t[i]) /\ (i = 1 \/ ~IsSpace(t[i - 1]))})

\* Math.round(words * 1.3): round half up.
RoundWords(words) == (13 * words + 5) \div 10

\* the estimator without its trim: the pieces of the text as given
estimateTokensUntrimmed(text) == Max(1, RoundWords(SplitLength(text)))

\* const words = text.trim().split(/\s+/).length; Math.max(1, Math.round(words * 1.3))
estimateTokens(text) == Max(1, RoundWords(SplitLength(trim(text))))

\* arr.join(sep)
RECURSIVE join(_, _)
join(texts, sep) ==
  IF texts = <<>> THEN <<>>
  ELSE IF Len(texts) = 1 THEN texts[1]
  ELSE texts[1] \o sep \o join(Tail(texts), sep)

----------------------------------------------------------------------------
(* Messages and thread states *)

\* a record stamped with a clock that runs backwards
MessageRecordCountingDown(id, role, content, createdAt) ==
  [id |-> id, role |-> role, content |-> content, createdAt |-> 0 - createdAt]

MessageRecord(id, role, content, createdAt) ==
  [id |-> id, role |-> role, content |-> content, createdAt |-> createdAt]

ThreadState(id, messages, summary, lastUpdated) ==
  [id |-> id, messages |-> messages, summary |-> summary,
   lastUpdated |-> lastUpdated]

\* uuid(): a fresh identifier (collisions are not modelled)
uuid == ToString(uuids + 1)

\* MemoryStorage.getThread: Map.get, 0 standing for undefined
getThread(threadId) ==
  IF threadId \in DOMAIN store THEN store[threadId] ELSE 0

\* a store with one slot: the saved state put under every id
saveThreadAllKeys(id, addr) == [k \in DOMAIN store \cup {id} |-> addr]

\* MemoryStorage.saveThread: Map.set(state.id, state), state given by address
saveThread(id, addr) ==
  [k \in DOMAIN store \cup {id} |-> IF k = id THEN addr ELSE store[k]]

\* toBaseMessage
toBaseMessage(m) ==
  IF m.role = "user" THEN [type |-> "human", content |-> m.content]
  ELSE IF m.role = "assistant" THEN [type |-> "ai", content |-> m.content]
  ELSE [type |-> "system", content |-> m.content]

----------------------------------------------------------------------------
(* buildContext *)

SummaryLabel ==
  <<"\n", "\n", "---", "\n", "Thread", " ", "Summary", " ", "(compressed):", "\n">>

NoneYet == <<"(none", " ", "yet)">>

\* the header without the placeholder for an empty summary
HeaderContentBare(systemPrompt, summary) == systemPrompt \o SummaryLabel \o summary

\* `${systemPrompt}\n\n---\nThread Summary (compressed):\n${summary || '(none yet)'}`
HeaderContent(systemPrompt, summary) ==
  systemPrompt \o SummaryLabel \o (IF summary = <<>> THEN NoneYet ELSE summary)

\* the exit test with the message's own cost left out
OutOfBudgetBeforeCost(tokenBudget, t) == tokenBudget <= 0

\* the test with its operands exchanged
OutOfBudgetSwapped(tokenBudget, t) == t - tokenBudget <= 0

\* the loops' exit test: if (tokenBudget - t <= 0) break
OutOfBudget(tokenBudget, t) == tokenBudget - t <= 0

\* for (const m of recent) {...}: admit forward until one does not fit
RECURSIVE IncludeRecent(_, _, _)
IncludeRecent(rest, tokenBudget, selected) ==
  IF rest = <<>> THEN [selected |-> selected, tokenBudget |-> tokenBudget]
  ELSE LET t == estimateTokens(Head(rest).content) + MessageOverhead IN
       IF OutOfBudget(tokenBudget, t)
       THEN [selected |-> selected, tokenBudget |-> tokenBudget]
       ELSE IncludeRecent(Tail(rest), tokenBudget - t, Append(selected, Head(rest)))

\* for (const m of older) {...}: admit backward, unshifting each admitted message
RECURSIVE IncludeOlder(_, _, _)
IncludeOlder(rest, tokenBudget, selected) ==
  IF rest = <<>> THEN [selected |-> selected, tokenBudget |-> tokenBudget]
  ELSE LET t == estimateTokens(Head(rest).content) + MessageOverhead IN
       IF OutOfBudget(tokenBudget, t)
       THEN [selected |-> selected, tokenBudget |-> tokenBudget]
       ELSE IncludeOlder(Tail(rest), tokenBudget - t, <<Head(rest)>> \o selected)

\* messages.slice(-this.keepRecent)
RecentWindow(messages, keepRecent) == slice(messages, 0 - keepRecent, Len(messages))

\* messages.slice(0, Math.max(0, messages.length - this.keepRecent)).reverse()
OlderWindow(messages, keepRecent) ==
  reverse(slice(messages, 0, Max(0, Len(messages) - keepRecent)))

\* the selected MessageRecords of buildContext, for a thread state and options
SelectMessages(state, options) ==
  LET header == HeaderContent(options.systemPrompt, state.summary)
      budget0 == options.maxPromptTokens - estimateTokens(header)
      afterRecent ==
        IncludeRecent(RecentWindow(state.messages, options.keepRecent), budget0, <<>>)
      afterOlder ==
        IncludeOlder(OlderWindow(state.messages, options.keepRecent),
                     afterRecent.tokenBudget, afterRecent.selected)
  IN afterOlder.selected

\* return [header, ...selected.map(toBaseMessage)]
ContextOf(state, options, selected) ==
  <<[type |-> "system",
     content |-> HeaderContent(options.systemPrompt, state.summary)]>>
  \o [i \in 1..Len(selected) |-> toBaseMessage(selected[i])]

----------------------------------------------------------------------------
(* maybeCompress *)

\* estimateTokens(state.messages.map((m) => m.content).join(' \n'))
TotalTokens(messages) ==
  estimateTokens(join([i \in 1..Len(messages) |-> messages[i].content], <<" ", "\n">>))

\* the test passing also at the threshold itself
BelowOrAtThreshold(totalTokens, compressAfterTokens) == totalTokens <= compressAfterTokens

\* if (totalTokens < this.compressAfterTokens) return;
BelowThreshold(totalTokens, compressAfterTokens) == totalTokens < compressAfterTokens

\* Math.max(6, Math.floor(state.messages.length * 0.25))
\* the quarter of the messages alone, without the minimum
ChunkSizeQuarter(length) == length \div 4

\* const n = Math.max(6, Math.floor(state.messages.length * 0.25))
ChunkSize(length) == Max(MinChunk, length \div 4)

\* state.messages.splice(0, n): the removed elements
SpliceRemoved(messages, n) == SubSeq(messages, 1, Min(n, Len(messages)))

\* state.messages.splice(0, n): what stays in the array
SpliceKept(messages, n) == SubSeq(messages, Min(n, Len(messages)) + 1, Len(messages))

----------------------------------------------------------------------------
(* Inputs *)

\* the concurrent callers
Procs == {1, 2}

\* thread ids a caller passes
ThreadIds == {"T", "U"}

\* message texts a caller passes
UserTexts == {<<"hi">>, <<>>}

\* texts the completion service answers with
ModelTexts == {<<"ok">>, <<" ", "fine", " ", "then", "\n">>}

Options(maxPromptTokens, compressAfterTokens, keepRecent, systemPrompt) ==
  [maxPromptTokens |-> maxPromptTokens, compressAfterTokens |-> compressAfterTokens,
   keepRecent |-> keepRecent, systemPrompt |-> systemPrompt]

\* options of the managers the system specification runs
SystemOptions ==
  { Options(40, 9, 8, <<"Assist">>), Options(40, 1, 8, <<"Assist">>) }

IdleProc ==
  [op |-> "none", fn |-> "none", pc |-> "idle", tid |-> "",
   userInput |-> <<>>, content |-> <<>>, text |-> <<>>,
   loaded |-> 0, chunk |-> <<>>, promptSummary |-> <<>>, promptCovers |-> {},
   selected |-> <<>>, context |-> <<>>, status |-> "none", value |-> <<>>,
   invocations |-> 0, before |-> <<>>, entry |-> <<>>]

\* the messages of a thread that took n addUserMessage calls at time 0
RECURSIVE Preloaded(_)
Preloaded(n) ==
  IF n = 0 THEN <<>>
  ELSE Append(Preloaded(n - 1), MessageRecord(ToString(n), "user", <<"hi">>, 0))

\* lengths of the history thread "T" starts with (none: no thread yet)
InitLengths == {0, 7}

\* options and threads the context assembler is run on
CtxBudgets == {5, 9, 15, 16, 24, 40}
CtxKeepRecent == {0, 1, 2, 8}
CtxTexts == {<<"hi">>, <<"a", " ", "b", " ", "c">>}
CtxSummaries == {<<>>, <<"s">>}
CtxOptions ==
  { Options(m, 4000, k, <<"Assist">>) : m \in CtxBudgets, k \in CtxKeepRecent }

\* a thread's messages with the given contents, appended at time 0
CtxMessages(contents) ==
  [i \in 1..Len(contents) |-> MessageRecord(ToString(i), "user", contents[i], 0)]

CtxContents == UNION { [1..n -> CtxTexts] : n \in 0..MaxCtxMsgs }

\* the characters of the texts given to estimateTokens: a letter and two kinds
\* of whitespace
TextChars == {"a", " ", "\n"}

Texts == UNION { [1..n -> TextChars] : n \in 0..MaxTextLen }

----------------------------------------------------------------------------
(* ResponseValidator (src/unnamed/part_003) and resilientTool               *)
(* (src/src/tools/advanced-patterns.ts): their objects                      *)

\* what a model invocation resolves to: JSON satisfying the schema, the same
\* wrapped in a code fence, JSON the schema rejects, or no JSON at all
ModelOutputs == {"json", "fenced json", "other json", "prose"}

\* safeParse(text): the fence is stripped, the text parsed and then validated
safeParse(text) ==
  LET cleaned == IF text = "fenced json" THEN "json" ELSE text
  IN IF cleaned = "prose"
     THEN [ok |-> FALSE, data |-> "", error |-> "Output was not valid JSON"]
     ELSE IF cleaned # "json"
          THEN [ok |-> FALSE, data |-> "", error |-> "path | issue"]
          ELSE [ok |-> TRUE, data |-> cleaned, error |-> ""]

\* the maxRetries a validator is constructed with
RetryOptions == {0, 1, 2}

\* one generateValidated call: its locals, and what it received and ended with
IdleCall ==
  [pc |-> "idle", started |-> 0, attempt |-> 0, lastError |-> "",
   invocations |-> 0, outputs |-> <<>>, outcome |-> "none", value |-> ""]

\* the validator after its constructor; "" stands for an undefined lastError
NewValidator(maxRetries) ==
  [maxRetries |-> maxRetries,
   metrics |-> [total |-> 0, success |-> 0, failed |-> 0, repaired |-> 0,
                retries |-> 0, lastError |-> "", latenciesMs |-> <<>>],
   calls |-> [c \in Procs |-> IdleCall],
   finished |-> 0]

\* retry_count values passed to the tool (the schema's default is 3)
RetryCounts == {0, 1, 2, 3}

\* operation names passed to the tool
Operations == {"sync", "send"}

\* no resilient_processor call in progress
IdleTool ==
  [pc |-> "idle", operation |-> "", retry_count |-> 0, attempt |-> 0,
   lastError |-> "", attempts |-> 0, log |-> <<>>, waits |-> <<>>,
   outcome |-> "none", value |-> <<>>, calls |-> 0]

InitNoThread ==
  /\ cfg \in SystemOptions
  /\ heap = <<>>
  /\ store = <<>>
  /\ procs = [p \in Procs |-> IdleProc]
  /\ now = 0
  /\ validator = NewValidator(2)
  /\ tool = IdleTool
  /\ uuids = 0
  /\ hist = [appended |-> {}, covered |-> <<>>, calls |-> 0]

InitThreadT ==
  \E n \in InitLengths :
    /\ cfg \in SystemOptions
    /\ heap = <<ThreadState("T", Preloaded(n), <<>>, 0)>>
    /\ store = [k \in {"T"} |-> 1]
    /\ procs = [p \in Procs |-> IdleProc]
    /\ now = 0
    /\ validator = NewValidator(2)
    /\ tool = IdleTool
    /\ uuids = n
    /\ hist = [appended |-> {<<"T", ToString(i)>> : i \in 1..n},
               covered |-> <<{}>>, calls |-> 0]

Init == InitNoThread \/ InitThreadT

\* thread "T" as some earlier calls left it, under some options
InitCtx ==
  \E contents \in CtxContents, summary \in CtxSummaries :
    /\ cfg \in CtxOptions
    /\ heap = <<ThreadState("T", CtxMessages(contents), summary, 0)>>
    /\ store = [k \in {"T"} |-> 1]
    /\ procs = [p \in Procs |-> IdleProc]
    /\ now = 0
    /\ validator = NewValidator(2)
    /\ tool = IdleTool
    /\ uuids = Len(contents)
    /\ hist = [appended |-> {<<"T", ToString(i)>> : i \in 1..Len(contents)},
               covered |-> <<{}>>, calls |-> 0]

\* thread "T" holding one message more than a compaction removes, and thread "U"
\* absent or just created
InitTwoThreads ==
  \E hasU \in BOOLEAN :
    LET n == MinChunk + 1
        T == ThreadState("T", Preloaded(n), <<>>, 0)
        U == ThreadState("U", <<>>, <<>>, 0)
    IN /\ cfg \in SystemOptions
       /\ heap = IF hasU THEN <<T, U>> ELSE <<T>>
       /\ store = IF hasU THEN [k \in {"T", "U"} |-> IF k = "T" THEN 1 ELSE 2]
                          ELSE [k \in {"T"} |-> 1]
       /\ procs = [p \in Procs |-> IdleProc]
       /\ now = 0
       /\ validator = NewValidator(2)
       /\ tool = IdleTool
       /\ uuids = n
       /\ hist = [appended |-> {<<"T", ToString(i)>> : i \in 1..n},
                  covered |-> IF hasU THEN <<{}, {}>> ELSE <<{}>>, calls |-> 0]

\* lengths around the chunk sizes: below and at the minimum chunk, and where the
\* quarter of the messages passes it
ChunkLengths == {0, 5, 6, 7, 20, 27, 28, 29, 32}

\* thread "T" with a history of one of ChunkLengths, with or without a summary
InitChunk ==
  \E n \in ChunkLengths, summary \in CtxSummaries :
    /\ cfg \in SystemOptions
    /\ heap = <<ThreadState("T", Preloaded(n), summary, 0)>>
    /\ store = [k \in {"T"} |-> 1]
    /\ procs = [p \in Procs |-> IdleProc]
    /\ now = 0
    /\ validator = NewValidator(2)
    /\ tool = IdleTool
    /\ uuids = n
    /\ hist = [appended |-> {<<"T", ToString(i)>> : i \in 1..n},
               covered |-> <<{}>>, calls |-> 0]

\* no thread stored yet, and caller 2 inside initThread("T"), awaiting the
\* getThread that found nothing; hist.calls counts the calls made from here on
InitRace ==
  /\ cfg \in SystemOptions
  /\ heap = <<>>
  /\ store = <<>>
  /\ procs = [p \in Procs |->
               IF p = 2
               THEN [IdleProc EXCEPT !.op = "initThread", !.fn = "initThread",
                                     !.pc = "getThread", !.tid = "T"]
               ELSE IdleProc]
  /\ now = 0
  /\ validator = NewValidator(2)
  /\ tool = IdleTool
  /\ uuids = 0
  /\ hist = [appended |-> {}, covered |-> <<>>, calls |-> 0]

\* a caller about to evaluate estimateTokens(text), for every text of Texts
InitEst ==
  \E text \in Texts :
    /\ cfg \in SystemOptions
    /\ heap = <<>>
    /\ store = <<>>
    /\ procs = [p \in Procs |->
                 IF p = 1
                 THEN [IdleProc EXCEPT !.op = "estimateTokens", !.fn = "estimateTokens",
                                       !.pc = "call", !.content = text]
                 ELSE IdleProc]
    /\ now = 0
    /\ validator = NewValidator(2)
    /\ tool = IdleTool
    /\ uuids = 0
    /\ hist = [appended |-> {}, covered |-> <<>>, calls |-> 1]

----------------------------------------------------------------------------
(* Steps shared by the operations *)

\* what the store holds for a thread id right now: <<state>>, or <<>> for undefined
Snapshot(tid) == IF getThread(tid) = 0 THEN <<>> ELSE <<heap[getThread(tid)]>>

\* a caller starts a top-level call whose first function is fn; everything up to
\* the first await runs at once, so storage.getThread reads the map here
Enter(p, op, fn, tid, content) ==
  [IdleProc EXCEPT !.op = op, !.fn = fn, !.pc = "getThread", !.tid = tid,
                   !.content = content, !.loaded = getThread(tid),
                   !.before = Snapshot(tid), !.entry = Snapshot(tid)]

\* p, inside generate, calls the next function fn: again up to its first await
EnterNext(p, fn) ==
  [procs[p] EXCEPT !.fn = fn, !.pc = "getThread", !.loaded = getThread(procs[p].tid),
                   !.entry = Snapshot(procs[p].tid)]

\* the call of p ends with a value
Return(p, value) ==
  procs' = [procs EXCEPT ![p].pc = "idle", ![p].status = "ok", ![p].value = value]

\* the error caught and dropped: the call ends as if it had returned
ThrowSwallowed(p, error) ==
  procs' = [procs EXCEPT ![p].pc = "idle", ![p].status = "ok"]

\* the call of p ends with a thrown error
Throw(p, error) ==
  procs' = [procs EXCEPT ![p].pc = "idle", ![p].status = error]

CanCall(p) == procs[p].pc = "idle" /\ hist.calls < MaxCalls

Called == [hist EXCEPT !.calls = @ + 1]

\* requireThread's test: if (!state) throw
Missing(loaded) == loaded = 0

Tick ==
  /\ now < MaxClock
  /\ now' = now + 1
  /\ UNCHANGED <<validator, tool, cfg, heap, store, procs, uuids, hist>>

----------------------------------------------------------------------------
(* initThread *)

\* const id = threadId ?? uuid(); const existing = await this.storage.getThread(id)
CallInitThread(p) ==
  /\ CanCall(p)
  /\ \/ \E tid \in ThreadIds :
          /\ procs' = [procs EXCEPT ![p] = Enter(p, "initThread", "initThread", tid, <<>>)]
          /\ UNCHANGED uuids
     \/ /\ procs' = [procs EXCEPT ![p] = Enter(p, "initThread", "initThread", uuid, <<>>)]
        /\ uuids' = uuids + 1
  /\ hist' = Called
  /\ UNCHANGED <<validator, tool, cfg, heap, store, now>>

\* the test dropped: a state is created and saved whatever the store holds
MustCreateAlways(existing) == TRUE

\* if (!existing)
MustCreate(existing) == existing = 0

\* if (!existing) { state = {id, messages: [], summary: '', ...}; saveThread(state) }
InitThreadResume(p) ==
  /\ procs[p].fn = "initThread" /\ procs[p].pc = "getThread"
  /\ IF MustCreate(procs[p].loaded)
     THEN /\ heap' = Append(heap, ThreadState(procs[p].tid, <<>>, <<>>, now))
          /\ store' = saveThread(procs[p].tid, Len(heap) + 1)
          /\ hist' = [hist EXCEPT !.covered = Append(@, {})]
          /\ procs' = [procs EXCEPT ![p].pc = "saveThread"]
     ELSE /\ Return(p, procs[p].tid)
          /\ UNCHANGED <<heap, store, hist>>
  /\ UNCHANGED <<validator, tool, cfg, now, uuids>>

\* return id
InitThreadReturn(p) ==
  /\ procs[p].fn = "initThread" /\ procs[p].pc = "saveThread"
  /\ Return(p, procs[p].tid)
  /\ UNCHANGED <<validator, tool, cfg, heap, store, now, uuids, hist>>

----------------------------------------------------------------------------
(* addUserMessage, addAssistantMessage *)

KnownIds == ThreadIds \cup DOMAIN store

CallAddUserMessage(p) ==
  /\ CanCall(p)
  /\ \E tid \in KnownIds, content \in UserTexts :
       procs' = [procs EXCEPT ![p] = Enter(p, "addUserMessage", "addUserMessage", tid, content)]
  /\ hist' = Called
  /\ UNCHANGED <<validator, tool, cfg, heap, store, now, uuids>>

CallAddAssistantMessage(p) ==
  /\ CanCall(p)
  /\ \E tid \in KnownIds, content \in ModelTexts :
       procs' = [procs EXCEPT ![p] = Enter(p, "addAssistantMessage", "addAssistantMessage", tid, content)]
  /\ hist' = Called
  /\ UNCHANGED <<validator, tool, cfg, heap, store, now, uuids>>

\* every appended message recorded with the user role
RoleOfAlwaysUser(fn) == "user"

\* role: 'user' in addUserMessage, role: 'assistant' in addAssistantMessage
RoleOf(fn) == IF fn = "addUserMessage" THEN "user" ELSE "assistant"

\* state.messages.push({...}); state.lastUpdated = Date.now(); saveThread(state)
AddMessageResume(p) ==
  /\ procs[p].fn \in {"addUserMessage", "addAssistantMessage"}
  /\ procs[p].pc = "getThread"
  /\ IF Missing(procs[p].loaded)
     THEN /\ Throw(p, "NotFound")
          /\ UNCHANGED <<heap, store, uuids, hist>>
     ELSE LET a == procs[p].loaded
              m == MessageRecord(uuid, RoleOf(procs[p].fn), procs[p].content, now)
          IN /\ heap' = [heap EXCEPT ![a].messages = Append(@, m),
                                     ![a].lastUpdated = now]
             /\ store' = saveThread(heap[a].id, a)
             /\ uuids' = uuids + 1
             /\ hist' = [hist EXCEPT !.appended = @ \cup {<<procs[p].tid, m.id>>}]
             /\ procs' = [procs EXCEPT ![p].pc = "saveThread"]
  /\ UNCHANGED <<validator, tool, cfg, now>>

\* the append returns; generate goes on to maybeCompress after its user message
AddMessageReturn(p) ==
  /\ procs[p].fn \in {"addUserMessage", "addAssistantMessage"}
  /\ procs[p].pc = "saveThread"
  /\ IF procs[p].op = "generate"
     THEN IF procs[p].fn = "addUserMessage"
          THEN procs' = [procs EXCEPT ![p] = EnterNext(p, "maybeCompress")]
          ELSE Return(p, procs[p].text)
     ELSE Return(p, <<>>)
  /\ UNCHANGED <<validator, tool, cfg, heap, store, now, uuids, hist>>

----------------------------------------------------------------------------
(* maybeCompress *)

CallMaybeCompress(p) ==
  /\ CanCall(p)
  /\ \E tid \in KnownIds :
       procs' = [procs EXCEPT ![p] = Enter(p, "maybeCompress", "maybeCompress", tid, <<>>)]
  /\ hist' = Called
  /\ UNCHANGED <<validator, tool, cfg, heap, store, now, uuids>>

Ids(messages) == {messages[i].id : i \in 1..Len(messages)}

\* the threshold test, then splice(0, n), the prompt and model.invoke(prompt)
MaybeCompressResume(p) ==
  /\ procs[p].fn = "maybeCompress" /\ procs[p].pc = "getThread"
  /\ IF Missing(procs[p].loaded)
     THEN /\ Throw(p, "NotFound")
          /\ UNCHANGED heap
     ELSE LET a == procs[p].loaded
              messages == heap[a].messages
              n == ChunkSize(Len(messages))
          IN IF BelowThreshold(TotalTokens(messages), cfg.compressAfterTokens)
             THEN /\ procs' = [procs EXCEPT ![p].pc = "return"]
                  /\ UNCHANGED heap
             ELSE /\ heap' = [heap EXCEPT ![a].messages = SpliceKept(messages, n)]
                  /\ procs' = [procs EXCEPT
                       ![p].pc = "invoke",
                       ![p].chunk = SpliceRemoved(messages, n),
                       ![p].promptSummary = heap[a].summary,
                       ![p].promptCovers =
                          hist.covered[a] \cup Ids(SpliceRemoved(messages, n)),
                       ![p].invocations = @ + 1]
  /\ UNCHANGED <<validator, tool, cfg, store, now, uuids, hist>>

\* the returned text added after the old summary instead of replacing it
SummaryAppended(p) ==
  /\ procs[p].fn = "maybeCompress" /\ procs[p].pc = "invoke"
  /\ \E res \in ModelTexts :
       LET a == procs[p].loaded
       IN /\ heap' = [heap EXCEPT ![a].summary = @ \o trim(res), ![a].lastUpdated = now]
          /\ store' = saveThread(heap[a].id, a)
          /\ hist' = [hist EXCEPT !.covered[a] = procs[p].promptCovers]
          /\ procs' = [procs EXCEPT ![p].pc = "saveThread"]
  /\ UNCHANGED <<validator, tool, cfg, now, uuids>>

\* state.summary = res.content.toString().trim(); lastUpdated; saveThread(state)
SummaryArrives(p) ==
  /\ procs[p].fn = "maybeCompress" /\ procs[p].pc = "invoke"
  /\ \E res \in ModelTexts :
       LET a == procs[p].loaded
       IN /\ heap' = [heap EXCEPT ![a].summary = trim(res), ![a].lastUpdated = now]
          /\ store' = saveThread(heap[a].id, a)
          /\ hist' = [hist EXCEPT !.covered[a] = procs[p].promptCovers]
          /\ procs' = [procs EXCEPT ![p].pc = "saveThread"]
  /\ UNCHANGED <<validator, tool, cfg, now, uuids>>

\* await this.model.invoke(compressionPrompt) rejects
SummaryFails(p) ==
  /\ procs[p].fn = "maybeCompress" /\ procs[p].pc = "invoke"
  /\ Throw(p, "CompletionFailure")
  /\ UNCHANGED <<validator, tool, cfg, heap, store, now, uuids, hist>>

\* maybeCompress returns; generate goes on to buildContext
MaybeCompressReturn(p) ==
  /\ procs[p].fn = "maybeCompress" /\ procs[p].pc \in {"return", "saveThread"}
  /\ IF procs[p].op = "generate"
     THEN procs' = [procs EXCEPT ![p] = EnterNext(p, "buildContext")]
     ELSE Return(p, <<>>)
  /\ UNCHANGED <<validator, tool, cfg, heap, store, now, uuids, hist>>

----------------------------------------------------------------------------
(* buildContext *)

CallBuildContext(p) ==
  /\ CanCall(p)
  /\ \E tid \in KnownIds :
       procs' = [procs EXCEPT ![p] = Enter(p, "buildContext", "buildContext", tid, <<>>)]
  /\ hist' = Called
  /\ UNCHANGED <<validator, tool, cfg, heap, store, now, uuids>>

\* the assembler cutting the thread's own messages down to the selected ones
BuildContextTrims(p) ==
  /\ procs[p].fn = "buildContext" /\ procs[p].pc = "getThread"
  /\ IF Missing(procs[p].loaded)
     THEN Throw(p, "NotFound") /\ UNCHANGED heap
     ELSE LET state == heap[procs[p].loaded]
              selected == SelectMessages(state, cfg)
          IN /\ procs' = [procs EXCEPT ![p].pc = "return",
                                       ![p].selected = selected,
                                       ![p].context = ContextOf(state, cfg, selected)]
             /\ heap' = [heap EXCEPT ![procs[p].loaded].messages = selected]
  /\ UNCHANGED <<validator, tool, cfg, store, now, uuids, hist>>

\* the context assembled from the state the top-level call found
BuildContextStale(p) ==
  /\ procs[p].fn = "buildContext" /\ procs[p].pc = "getThread"
  /\ IF Missing(procs[p].loaded)
     THEN Throw(p, "NotFound")
     ELSE LET state == procs[p].before[1]
              selected == SelectMessages(state, cfg)
          IN procs' = [procs EXCEPT ![p].pc = "return",
                                    ![p].selected = selected,
                                    ![p].context = ContextOf(state, cfg, selected)]
  /\ UNCHANGED <<validator, tool, cfg, heap, store, now, uuids, hist>>

\* requireThread, then everything up to return [header, ...selected.map(toBaseMessage)]
BuildContextResume(p) ==
  /\ procs[p].fn = "buildContext" /\ procs[p].pc = "getThread"
  /\ IF Missing(procs[p].loaded)
     THEN Throw(p, "NotFound")
     ELSE LET state == heap[procs[p].loaded]
              selected == SelectMessages(state, cfg)
          IN procs' = [procs EXCEPT ![p].pc = "return",
                                    ![p].selected = selected,
                                    ![p].context = ContextOf(state, cfg, selected)]
  /\ UNCHANGED <<validator, tool, cfg, heap, store, now, uuids, hist>>

\* buildContext returns; generate goes on to this.model.invoke(context)
BuildContextReturn(p) ==
  /\ procs[p].fn = "buildContext" /\ procs[p].pc = "return"
  /\ IF procs[p].op = "generate"
     THEN procs' = [procs EXCEPT ![p].fn = "generate", ![p].pc = "invoke",
                                 ![p].invocations = @ + 1]
     ELSE Return(p, procs[p].context)
  /\ UNCHANGED <<validator, tool, cfg, heap, store, now, uuids, hist>>

----------------------------------------------------------------------------
(* generate *)

\* await this.addUserMessage(threadId, userInput)
CallGenerate(p) ==
  /\ CanCall(p)
  /\ \E tid \in KnownIds, userInput \in UserTexts :
       procs' = [procs EXCEPT
         ![p] = [Enter(p, "generate", "addUserMessage", tid, userInput)
                   EXCEPT !.userInput = userInput]]
  /\ hist' = Called
  /\ UNCHANGED <<validator, tool, cfg, heap, store, now, uuids>>

\* const text = response.content.toString(); await this.addAssistantMessage(threadId, text)
ReplyArrives(p) ==
  /\ procs[p].fn = "generate" /\ procs[p].pc = "invoke"
  /\ \E response \in ModelTexts :
       procs' = [procs EXCEPT
         ![p] = [EnterNext(p, "addAssistantMessage")
                   EXCEPT !.text = response, !.content = response]]
  /\ UNCHANGED <<validator, tool, cfg, heap, store, now, uuids, hist>>

\* a rejected reply call caught and the model invoked again with the same context
ReplyRetried(p) ==
  /\ procs[p].fn = "generate" /\ procs[p].pc = "invoke"
  /\ procs' = [procs EXCEPT ![p].invocations = @ + 1]
  /\ UNCHANGED <<validator, tool, cfg, heap, store, now, uuids, hist>>

\* await this.model.invoke(context) rejects
ReplyFails(p) ==
  /\ procs[p].fn = "generate" /\ procs[p].pc = "invoke"
  /\ Throw(p, "CompletionFailure")
  /\ UNCHANGED <<validator, tool, cfg, heap, store, now, uuids, hist>>

----------------------------------------------------------------------------
(* getThreadView *)

CallGetThreadView(p) ==
  /\ CanCall(p)
  /\ \E tid \in KnownIds :
       procs' = [procs EXCEPT ![p] = Enter(p, "getThreadView", "getThreadView", tid, <<>>)]
  /\ hist' = Called
  /\ UNCHANGED <<validator, tool, cfg, heap, store, now, uuids>>

\* return { summary: state.summary, messages: state.messages }: the summary is a
\* string value, messages is the state's own array (held by address)
GetThreadViewResume(p) ==
  /\ procs[p].fn = "getThreadView" /\ procs[p].pc = "getThread"
  /\ IF Missing(procs[p].loaded)
     THEN Throw(p, "NotFound")
     ELSE Return(p, [summary |-> heap[procs[p].loaded].summary,
                     messages |-> procs[p].loaded])
  /\ UNCHANGED <<validator, tool, cfg, heap, store, now, uuids, hist>>

----------------------------------------------------------------------------
(* estimateTokens, called on its own *)

EstimateTokensReturn(p) ==
  /\ procs[p].fn = "estimateTokens" /\ procs[p].pc = "call"
  /\ Return(p, estimateTokens(procs[p].content))
  /\ UNCHANGED <<validator, tool, cfg, heap, store, now, uuids, hist>>

----------------------------------------------------------------------------
(* The system: concurrent callers of one ConversationManager. A step is what  *)
(* one caller runs between two awaits; the calls of a run overlap within one   *)
(* reading of the clock (time passes in SpecSeq).                              *)

Next ==
  \E p \in Procs :
       \/ CallInitThread(p) \/ InitThreadResume(p) \/ InitThreadReturn(p)
       \/ CallAddUserMessage(p) \/ CallAddAssistantMessage(p)
       \/ AddMessageResume(p) \/ AddMessageReturn(p)
       \/ CallMaybeCompress(p) \/ MaybeCompressResume(p)
       \/ SummaryArrives(p) \/ SummaryFails(p) \/ MaybeCompressReturn(p)
       \/ CallBuildContext(p) \/ BuildContextResume(p) \/ BuildContextReturn(p)
       \/ CallGenerate(p) \/ ReplyArrives(p) \/ ReplyFails(p)
       \/ CallGetThreadView(p) \/ GetThreadViewResume(p)

Spec == Init /\ [][Next]_vars

(* One caller, one call after the other, while time passes *)

NextSeq ==
  \/ Tick
  \/ CallInitThread(1) \/ InitThreadResume(1) \/ InitThreadReturn(1)
  \/ CallAddUserMessage(1) \/ CallAddAssistantMessage(1)
  \/ AddMessageResume(1) \/ AddMessageReturn(1)
  \/ CallMaybeCompress(1) \/ MaybeCompressResume(1)
  \/ SummaryArrives(1) \/ SummaryFails(1) \/ MaybeCompressReturn(1)
  \/ CallBuildContext(1) \/ BuildContextResume(1) \/ BuildContextReturn(1)
  \/ CallGenerate(1) \/ ReplyArrives(1) \/ ReplyFails(1)
  \/ CallGetThreadView(1) \/ GetThreadViewResume(1)

SpecSeq == Init /\ [][NextSeq]_vars

(* buildContext alone, on every thread and option of InitCtx *)

NextCtx ==
  \/ CallBuildContext(1) \/ BuildContextResume(1) \/ BuildContextReturn(1)

SpecCtx == InitCtx /\ [][NextCtx]_vars

(* Two callers on different threads: caller 1 works on thread "T", caller 2 on *)
(* the other thread ids, with the operations that write                       *)

OnOwnThread(p) == (p = 1) <=> (procs'[p].tid = "T")

NextTwo ==
  \E p \in Procs :
    \/ CallInitThread(p) /\ OnOwnThread(p)
    \/ InitThreadResume(p) /\ OnOwnThread(p)
    \/ InitThreadReturn(p) /\ OnOwnThread(p)
    \/ CallAddUserMessage(p) /\ OnOwnThread(p)
    \/ AddMessageResume(p) /\ OnOwnThread(p)
    \/ AddMessageReturn(p) /\ OnOwnThread(p)
    \/ CallMaybeCompress(p) /\ OnOwnThread(p)
    \/ MaybeCompressResume(p) /\ OnOwnThread(p)
    \/ SummaryArrives(p) /\ OnOwnThread(p)
    \/ SummaryFails(p) /\ OnOwnThread(p)
    \/ MaybeCompressReturn(p) /\ OnOwnThread(p)
    \/ BuildContextResume(p) /\ OnOwnThread(p)
    \/ BuildContextReturn(p) /\ OnOwnThread(p)
    \/ CallGenerate(p) /\ OnOwnThread(p)
    \/ ReplyArrives(p) /\ OnOwnThread(p)
    \/ ReplyFails(p) /\ OnOwnThread(p)

SpecTwo == InitTwoThreads /\ [][NextTwo]_vars

(* Two callers on thread "T", starting while an initThread("T") is pending: *)
(* initThread, addUserMessage and generate                                  *)

OnThreadT(p) == procs'[p].tid = "T"

NextRace ==
  \E p \in Procs :
    \/ CallInitThread(p) /\ OnThreadT(p)
    \/ InitThreadResume(p) /\ OnThreadT(p)
    \/ InitThreadReturn(p) /\ OnThreadT(p)
    \/ CallAddUserMessage(p) /\ OnThreadT(p)
    \/ AddMessageResume(p) /\ OnThreadT(p)
    \/ AddMessageReturn(p) /\ OnThreadT(p)
    \/ MaybeCompressResume(p) /\ OnThreadT(p)
    \/ SummaryArrives(p) /\ OnThreadT(p)
    \/ SummaryFails(p) /\ OnThreadT(p)
    \/ MaybeCompressReturn(p) /\ OnThreadT(p)
    \/ BuildContextResume(p) /\ OnThreadT(p)
    \/ BuildContextReturn(p) /\ OnThreadT(p)
    \/ CallGenerate(p) /\ OnThreadT(p)
    \/ ReplyArrives(p) /\ OnThreadT(p)
    \/ ReplyFails(p) /\ OnThreadT(p)

SpecRace == InitRace /\ [][NextRace]_vars

(* maybeCompress alone, on the threads of InitChunk *)

NextChunk ==
  \/ CallMaybeCompress(1) \/ MaybeCompressResume(1)
  \/ SummaryArrives(1) \/ SummaryFails(1) \/ MaybeCompressReturn(1)

SpecChunk == InitChunk /\ [][NextChunk]_vars

(* estimateTokens alone, on every text of Texts *)

NextEst == EstimateTokensReturn(1)

SpecEst == InitEst /\ [][NextEst]_vars

----------------------------------------------------------------------------
(* Properties *)

\* p's last call was operation op and it returned normally
Returned(p, op) ==
  procs[p].op = op /\ procs[p].pc = "idle" /\ procs[p].status = "ok"

\* what the store holds for the thread p's call is about
Stored(p) == heap[getThread(procs[p].tid)]

RECURSIVE SumCosts(_)
SumCosts(list) ==
  IF list = <<>> THEN 0
  ELSE estimateTokens(Head(list).content) + MessageOverhead + SumCosts(Tail(list))

\* aggregate estimated cost of a context: the header, then each message + overhead
ContextCost(context) ==
  estimateTokens(context[1].content) + SumCosts(Tail(context))

\* C1 as stated: every list buildContext returns costs at most maxPromptTokens.
C1_BudgetInvariant ==
  \A p \in Procs :
    Returned(p, "buildContext") => ContextCost(procs[p].value) <= cfg.maxPromptTokens

\* C1 amended: the list returned by buildContext costs at most maxPromptTokens
\* whenever the header alone costs at most maxPromptTokens; otherwise the list is
\* the header alone.
C1_BudgetUnlessHeaderTooBig ==
  \A p \in Procs :
    Returned(p, "buildContext") =>
      LET context == procs[p].value IN
      IF estimateTokens(context[1].content) <= cfg.maxPromptTokens
      THEN ContextCost(context) <= cfg.maxPromptTokens
      ELSE Len(context) = 1

\* a context that admitted some messages of the thread and left some out
C1_Witness ==
  \E p \in Procs :
    /\ Returned(p, "buildContext")
    /\ Len(procs[p].value) >= 3
    /\ Len(procs[p].value) - 1 < Len(Stored(p).messages)

\* position of a selected message in the thread's messages
Position(m, messages) == CHOOSE i \in 1..Len(messages) : messages[i].id = m.id

\* C7: the non-header part of buildContext's result lists thread messages in
\* strictly increasing order of their position in messages, none twice, for every
\* keepRecent (0 and values beyond the number of messages included).
C7_OrderInvariant ==
  \A p \in Procs :
    Returned(p, "buildContext") =>
      LET selected == procs[p].selected
          messages == Stored(p).messages
      IN \A i, j \in 1..Len(selected) :
           i < j => Position(selected[i], messages) < Position(selected[j], messages)

\* the state p's current function found in the store when it was called
AtEntry(p) == procs[p].entry[1]

\* the state p's top-level call found in the store when it was called
Before(p) == procs[p].before[1]

\* C2: when the summarization call made inside maybeCompress fails, the thread's
\* messages and summary read from the store afterwards equal their values
\* before maybeCompress was called.
C2_CompactionSafety ==
  \A p \in Procs :
    ( /\ procs[p].fn = "maybeCompress"
      /\ procs[p].pc = "idle"
      /\ procs[p].status = "CompletionFailure" )
    => /\ Stored(p).messages = AtEntry(p).messages
       /\ Stored(p).summary = AtEntry(p).summary

Quiescent == \A p \in Procs : procs[p].pc = "idle"

\* C3: once every call has ended, each message ever appended to a thread is
\* still in the thread's messages or belongs to a chunk that went into the
\* summarization chain that produced the thread's current summary.
C3_NoGap ==
  Quiescent =>
    \A e \in hist.appended :
      /\ getThread(e[1]) # 0
      /\ \/ e[2] \in Ids(heap[getThread(e[1])].messages)
         \/ e[2] \in hist.covered[getThread(e[1])]

\* the messages after one generate call run alone on messages
GenerateAlone(messages, userInput, reply) ==
  LET withUser == Append(messages, MessageRecord("u", "user", userInput, 0))
      kept == IF BelowThreshold(TotalTokens(withUser), cfg.compressAfterTokens)
              THEN withUser
              ELSE SpliceKept(withUser, ChunkSize(Len(withUser)))
  IN Append(kept, MessageRecord("a", "assistant", reply, 0))

\* the lengths messages can have after the generate calls of p and then q, run
\* one after the other on messages, whatever the completion service replies
SerialLengths(messages, p, q) ==
  { Len(GenerateAlone(GenerateAlone(messages, procs[p].userInput, r1),
                      procs[q].userInput, r2)) : r1, r2 \in ModelTexts }

\* both callers ran generate on the same stored thread and both returned
TwoGenerates ==
  /\ Returned(1, "generate") /\ Returned(2, "generate")
  /\ procs[1].tid = procs[2].tid

\* the messages the thread held before either call: the history it started with
StartMessages ==
  CHOOSE m \in {Before(p).messages : p \in Procs} :
    \E n \in InitLengths : m = Preloaded(n)

\* C4: two concurrent generate calls on one thread whose completion calls all
\* succeed append two user and two assistant messages, and leave messages with a
\* length that the same two calls produce when run one after the other in some
\* order.
C4_SerialLength ==
  TwoGenerates =>
    /\ Cardinality(hist.appended) = Len(StartMessages) + 4
    /\ Len(Stored(1).messages) \in
         SerialLengths(StartMessages, 1, 2) \cup SerialLengths(StartMessages, 2, 1)

\* what a generate call of p, run alone, appends
Turn(p) ==
  << <<"user", procs[p].userInput>>, <<"assistant", procs[p].text>> >>

\* C5: after two concurrent generate calls (none compacting) the messages are the
\* prior history followed by the user and assistant message of one call and then
\* those of the other, never an interleaving.
C5_SerialOrder ==
  ( /\ TwoGenerates
    /\ procs[1].invocations = 1 /\ procs[2].invocations = 1 )
  => LET final == Stored(1).messages
         added == SubSeq(final, Len(StartMessages) + 1, Len(final))
         shown == [i \in 1..Len(added) |-> <<added[i].role, added[i].content>>]
     IN /\ SubSeq(final, 1, Len(StartMessages)) = StartMessages
        /\ shown \in {Turn(1) \o Turn(2), Turn(2) \o Turn(1)}

\* p has loaded a thread state to mutate and has not yet saved it
InSection(p) ==
  /\ procs[p].fn \in {"addUserMessage", "addAssistantMessage", "maybeCompress"}
  /\ procs[p].pc \in {"getThread", "invoke"}
  /\ procs[p].loaded # 0

\* C6: the load-mutate-save sections of two operations on the same thread id
\* never overlap.
C6_MutualExclusion ==
  \A p, q \in Procs :
    (p # q /\ InSection(p) /\ InSection(q)) => procs[p].tid # procs[q].tid

\* C8: while a summarization call is pending, the store never shows the chunk
\* already missing from messages with the summary still at its pre-compaction
\* value.
C8_AtomicCompaction ==
  \A p \in Procs :
    ( /\ procs[p].fn = "maybeCompress" /\ procs[p].pc = "invoke"
      /\ procs[p].chunk # <<>> )
    => ~ ( /\ Ids(procs[p].chunk) \cap Ids(Stored(p).messages) = {}
           /\ Stored(p).summary = procs[p].promptSummary )

\* C9: when maybeCompress is triggered and the summarization succeeds, the
\* number of messages strictly decreases, by at least 6 or to 0.
C9_CompactionProgress ==
  \A p \in Procs :
    (procs[p].fn = "maybeCompress" /\ procs[p].pc = "saveThread")
    => LET was == Len(AtEntry(p).messages)
           is == Len(Stored(p).messages)
       IN is < was /\ (was - is >= MinChunk \/ is = 0)

\* C10: initThread(id) on an id that has a stored state returns that id and
\* leaves the stored state, its messages and its summary as they were.
C10_IdempotentReinit ==
  \A p \in Procs :
    (Returned(p, "initThread") /\ procs[p].before # <<>>)
    => /\ procs[p].value = procs[p].tid
       /\ getThread(procs[p].tid) = procs[p].loaded
       /\ Stored(p).messages = Before(p).messages
       /\ Stored(p).summary = Before(p).summary

\* initThread returned for a thread that holds messages, after an earlier call
C10_Witness ==
  \E p \in Procs :
    /\ Returned(p, "initThread")
    /\ procs[p].before # <<>>
    /\ Before(p).messages # <<>>
    /\ hist.calls >= 2

\* the operations that go through requireThread
NeedsThread ==
  {"addUserMessage", "addAssistantMessage", "buildContext", "maybeCompress",
   "generate", "getThreadView"}

\* C11: a call of addUserMessage, addAssistantMessage, buildContext,
\* maybeCompress, generate or getThreadView on a thread id with no stored state
\* ends with a not-found error at its first step, leaving every stored state and
\* the store as they were, without any completion-service call.
C11_UnknownThread ==
  [][\A p \in Procs :
       ( /\ procs[p].op \in NeedsThread
         /\ procs[p].pc # "idle"
         /\ procs[p].before = <<>>
         /\ procs'[p] # procs[p] )
       => /\ heap' = heap
          /\ store' = store
          /\ procs'[p].pc = "idle"
          /\ procs'[p].status = "NotFound"
          /\ procs'[p].invocations = 0]_vars

\* generate failed with not-found on an unknown id while another thread is stored
C11_Witness ==
  \E p \in Procs :
    /\ procs[p].op = "generate"
    /\ procs[p].pc = "idle"
    /\ procs[p].status = "NotFound"
    /\ procs[p].before = <<>>
    /\ DOMAIN store # {}

\* C12: a generate call on an existing thread that triggers no compaction and
\* whose completion call succeeds returns exactly the text the completion
\* service returned, and leaves messages equal to the previous messages followed
\* by a user message holding the input and an assistant message holding that
\* text, with the summary unchanged.
C12_TurnResult ==
  \A p \in Procs :
    ( /\ Returned(p, "generate")
      /\ procs[p].invocations = 1 )
    => LET prev == Before(p).messages
           final == Stored(p).messages
       IN /\ procs[p].value = procs[p].text
          /\ Len(final) = Len(prev) + 2
          /\ SubSeq(final, 1, Len(prev)) = prev
          /\ final[Len(prev) + 1].role = "user"
          /\ final[Len(prev) + 1].content = procs[p].userInput
          /\ final[Len(prev) + 2].role = "assistant"
          /\ final[Len(prev) + 2].content = procs[p].text
          /\ Stored(p).summary = Before(p).summary

\* a generate on an empty thread returned and the thread holds exactly 2 messages
C12_Witness ==
  \E p \in Procs :
    /\ Returned(p, "generate")
    /\ procs[p].invocations = 1
    /\ Before(p).messages = <<>>
    /\ Len(Stored(p).messages) = 2
    /\ procs[p].value \in ModelTexts

\* C13: when the reply completion call of generate fails, generate fails and the
\* stored thread state (messages and summary) is what it was before generate
\* was called.
C13_NoPartialWrite ==
  \A p \in Procs :
    ( /\ procs[p].op = "generate"
      /\ procs[p].fn = "generate"
      /\ procs[p].pc = "idle"
      /\ procs[p].status = "CompletionFailure" )
    => /\ Stored(p).messages = Before(p).messages
       /\ Stored(p).summary = Before(p).summary

\* p is at the await of a model.invoke call
Invoking(p) == procs[p].pc = "invoke"

\* C14: within one generate call the completion service is invoked at most
\* twice, once at most by maybeCompress and once at most for the reply; an
\* invocation that fails is not issued again: the call ends there with the
\* completion failure, so after a failed summarization no reply call is made.
C14_NoRetry ==
  [][\A p \in Procs :
       ( /\ procs[p].op = "generate"
         /\ procs[p].pc # "idle"
         /\ procs'[p] # procs[p] )
       => LET made == procs[p].invocations
              made2 == procs'[p].invocations
          IN /\ made2 \in {made, made + 1}
             /\ made2 <= 2
             /\ made2 = made + 1 =>
                  /\ ~Invoking(p)
                  /\ procs'[p].pc = "invoke"
                  /\ \/ procs[p].fn = "maybeCompress" /\ made = 0
                     \/ procs[p].fn = "buildContext" /\ made <= 1
             /\ Invoking(p) =>
                  /\ procs'[p].pc # "invoke"
                  /\ made2 = made
                  /\ procs'[p].pc = "idle" =>
                       /\ procs'[p].status = "CompletionFailure"
                       /\ procs[p].fn = "maybeCompress" => made2 = 1]_vars

\* a generate call summarized, then its reply call failed and so did generate
C14_Witness ==
  \E p \in Procs :
    /\ procs[p].op = "generate"
    /\ procs[p].fn = "generate"
    /\ procs[p].pc = "idle"
    /\ procs[p].status = "CompletionFailure"
    /\ procs[p].invocations = 2

\* the header buildContext puts first for the state p's call found
HeaderOf(p) ==
  [type |-> "system", content |-> HeaderContent(cfg.systemPrompt, Before(p).summary)]

\* C15: when maxPromptTokens is smaller than the header's own estimated cost,
\* buildContext on an existing thread does not throw and returns exactly
\* [header], with none of the thread's messages, whatever the thread holds.
C15_HeaderOnly ==
  \A p \in Procs :
    ( /\ procs[p].op = "buildContext"
      /\ procs[p].pc = "idle"
      /\ procs[p].before # <<>>
      /\ cfg.maxPromptTokens < estimateTokens(HeaderOf(p).content) )
    => /\ procs[p].status = "ok"
       /\ procs[p].value = <<HeaderOf(p)>>

\* buildContext returned for a thread with messages under a budget below the
\* header's cost
C15_Witness ==
  \E p \in Procs :
    /\ Returned(p, "buildContext")
    /\ cfg.maxPromptTokens < estimateTokens(HeaderOf(p).content)
    /\ Len(Stored(p).messages) >= 2
    /\ Len(procs[p].value) = 1

\* C16: the state the store returns for a thread id changes only by a completed
\* saveThread: while an operation that loaded the state has not saved it yet,
\* still awaiting or already failed, getThread returns what it returned when
\* the operation loaded it.
C16_StoreAtomicity ==
  \A p \in Procs :
    ( /\ procs[p].fn \in {"addUserMessage", "addAssistantMessage", "maybeCompress"}
      /\ procs[p].loaded # 0
      /\ \/ procs[p].pc \in {"getThread", "invoke"}
         \/ procs[p].pc = "idle" /\ procs[p].status # "ok" )
    => Snapshot(procs[p].tid) = procs[p].entry

\* C17: no step of a buildContext or getThreadView call changes the stored state
\* of any thread (messages, summary, lastUpdated) or the store, and such a call
\* makes no completion-service call.
C17_ReadOnly ==
  [][\A p \in Procs :
       ( /\ procs'[p].op \in {"buildContext", "getThreadView"}
         /\ procs'[p] # procs[p] )
       => /\ heap' = heap
          /\ store' = store
          /\ procs'[p].invocations = 0]_vars

\* buildContext returned a context holding messages of the thread
C17_Witness ==
  \E p \in Procs :
    /\ Returned(p, "buildContext")
    /\ Len(procs[p].value) >= 2
    /\ Len(Stored(p).messages) > Len(procs[p].value) - 1

\* C18: the {summary, messages} value getThreadView returned keeps the contents
\* it had when it was returned: no later step (an append or a compaction on the
\* thread) changes the messages of a view its caller still holds.
C18_ViewIsSnapshot ==
  [][\A p \in Procs :
       ( /\ Returned(p, "getThreadView")
         /\ procs'[p] = procs[p] )
       => heap'[procs[p].value.messages].messages
            = heap[procs[p].value.messages].messages]_vars

\* the number of whitespace-separated words of a text: its maximal runs of
\* non-whitespace characters
Words(text) ==
  Cardinality({i \in 1..Len(text) :
                 ~IsSpace(text[i]) /\ (i = 1 \/ IsSpace(text[i - 1]))})

\* x rounded to the nearest integer, halves upward, for x = tenths / 10
Rounded(tenths) ==
  CHOOSE v \in 0..tenths : 10 * v <= tenths + 5 /\ tenths + 5 < 10 * v + 10

\* a text of k words separated by single spaces
WordsText(k) == [i \in 1..(2 * k - 1) |-> IF i % 2 = 1 THEN "a" ELSE " "]

MaxWords == (MaxTextLen + 1) \div 2

\* C19: estimateTokens returns an integer >= 1 for every text (1 for the empty
\* and for a whitespace-only text), equal to max(1, round(1.3 x the number of
\* whitespace-separated words)), and a text with no more words than another
\* never gets the larger estimate.
C19_EstimatorContract ==
  \A p \in Procs :
    Returned(p, "estimateTokens")
    => LET text == procs[p].content
           value == procs[p].value
       IN /\ value \in Nat /\ value >= 1
          /\ Words(text) = 0 => value = 1
          /\ value = Max(1, Rounded(13 * Words(text)))
          /\ \A k \in 0..MaxWords :
               /\ Words(text) <= k => value <= estimateTokens(WordsText(k))
               /\ k <= Words(text) => estimateTokens(WordsText(k)) <= value

\* a text of 5 words, where 1.3 x words falls on a half, was estimated at 7
C19_Witness ==
  \E p \in Procs :
    /\ Returned(p, "estimateTokens")
    /\ Words(procs[p].content) = 5
    /\ "\n" \in {procs[p].content[i] : i \in 1..Len(procs[p].content)}
    /\ procs[p].value = 7

\* C20: a step of an operation (initThread, an append, maybeCompress, generate;
\* failing or not, however interleaved with other calls) on one thread id leaves
\* the stored state of every other thread id as it was.
C20_ThreadIndependence ==
  [][\A p \in Procs :
       procs'[p] # procs[p]
       => \A B \in DOMAIN store \ {procs'[p].tid} :
            /\ B \in DOMAIN store'
            /\ heap'[store'[B]] = heap[store[B]]]_vars

\* two overlapping generate calls, one per thread, both returned
C20_Witness ==
  /\ Returned(1, "generate") /\ procs[1].tid = "T"
  /\ Returned(2, "generate") /\ procs[2].tid = "U"
  /\ Len(Stored(1).messages) >= 2
  /\ Len(Stored(2).messages) = 2

\* createdAt never decreases along messages
Chronological(messages) ==
  \A i, j \in 1..Len(messages) : i < j => messages[i].createdAt <= messages[j].createdAt

\* C21: the step of addUserMessage or addAssistantMessage that writes adds
\* exactly one message at the end of messages, with the given role and content,
\* and leaves every existing message and the summary unchanged; and after every
\* step the messages of every thread have createdAt non-decreasing along the
\* sequence.
C21_AppendOnly ==
  [][/\ \A p \in Procs :
          ( /\ procs[p].fn \in {"addUserMessage", "addAssistantMessage"}
            /\ procs[p].pc = "getThread"
            /\ procs[p].loaded # 0
            /\ procs'[p] # procs[p] )
          => LET a == procs[p].loaded
                 old == heap[a].messages
                 new == heap'[a].messages
             IN /\ Len(new) = Len(old) + 1
                /\ SubSeq(new, 1, Len(old)) = old
                /\ new[Len(new)].role =
                     (IF procs[p].fn = "addUserMessage" THEN "user" ELSE "assistant")
                /\ new[Len(new)].content = procs[p].content
                /\ heap'[a].summary = heap[a].summary
     /\ \A a \in DOMAIN heap' : Chronological(heap'[a].messages)]_vars

\* an assistant message stamped later than the user message it follows
C21_Witness ==
  \E a \in DOMAIN heap :
    LET messages == heap[a].messages
        n == Len(messages)
    IN /\ n >= 2
       /\ messages[n].role = "assistant"
       /\ messages[n - 1].role = "user"
       /\ messages[n - 1].createdAt < messages[n].createdAt

C23_ChunkSelection ==
  \A p \in Procs :
    ( /\ procs[p].fn = "maybeCompress"
      /\ procs[p].pc = "saveThread" )
    => LET old == AtEntry(p).messages
           len == Len(old)
           n == Min(len, Max(6, len \div 4))
       IN /\ procs[p].chunk = SubSeq(old, 1, n)
          /\ Stored(p).messages = SubSeq(old, n + 1, len)

\* a compaction of 32 messages removed 8 and left 24
C23_Witness ==
  \E p \in Procs :
    /\ procs[p].fn = "maybeCompress"
    /\ procs[p].pc = "saveThread"
    /\ Len(AtEntry(p).messages) = 32
    /\ Len(procs[p].chunk) = 8
    /\ Len(Stored(p).messages) = 24

\* s is a text the completion service can return, without the whitespace at
\* its two ends
TrimmedReply(s) ==
  /\ s = <<>> \/ (~IsSpace(s[1]) /\ ~IsSpace(s[Len(s)]))
  /\ \E r \in ModelTexts :
       \E i \in 1..(Len(r) + 1), j \in 0..Len(r) :
         /\ SubSeq(r, i, j) = s
         /\ \A k \in 1..Len(r) : (k < i \/ k > j) => IsSpace(r[k])

\* p's step starts a summarization call / ends one successfully
StartsSummary(p) ==
  procs[p].fn = "maybeCompress" /\ procs[p].pc = "getThread" /\ procs'[p].pc = "invoke"

SummarySaved(p) ==
  procs[p].fn = "maybeCompress" /\ procs[p].pc = "invoke" /\ procs'[p].pc = "saveThread"

\* C24: the summarization request carries the summary current when the chunk is
\* removed and the chunk's messages in their order; a successful compaction
\* sets the summary to the trimmed returned text, whatever the old summary was;
\* a new thread's summary is empty and no other step changes a summary.
C24_SummaryReplacement ==
  [][/\ \A p \in Procs :
          StartsSummary(p)
          => LET a == procs[p].loaded
                 old == heap[a].messages
                 taken == Len(procs'[p].chunk)
             IN /\ procs'[p].promptSummary = heap[a].summary
                /\ taken <= Len(old)
                /\ procs'[p].chunk = SubSeq(old, 1, taken)
     /\ \A p \in Procs :
          SummarySaved(p) => TrimmedReply(heap'[procs[p].loaded].summary)
     /\ \A a \in DOMAIN heap' :
          IF a \in DOMAIN heap
          THEN heap'[a].summary # heap[a].summary
               => \E p \in Procs : SummarySaved(p) /\ procs[p].loaded = a
          ELSE heap'[a].summary = <<>>]_vars

\* a second compaction replaced the summary the first one had produced
C24_Witness ==
  \E p \in Procs :
    /\ procs[p].fn = "maybeCompress"
    /\ procs[p].pc = "saveThread"
    /\ procs[p].chunk # <<>>
    /\ procs[p].promptSummary # <<>>
    /\ Stored(p).summary # procs[p].promptSummary
    /\ TrimmedReply(Stored(p).summary)

\* the last keepRecent messages, oldest first
LastMessages(messages, keepRecent) ==
  SubSeq(messages, Max(1, Len(messages) - keepRecent + 1), Len(messages))

\* the longest prefix of window in which each message's cost is at most the
\* budget left by the ones before it
RECURSIVE FittingPrefix(_, _)
FittingPrefix(window, budget) ==
  IF window = <<>> THEN <<>>
  ELSE LET cost == estimateTokens(Head(window).content) + MessageOverhead
       IN IF cost <= budget
          THEN <<Head(window)>> \o FittingPrefix(Tail(window), budget - cost)
          ELSE <<>>

\* the messages of selected that belong to window, in the order of selected
RECURSIVE Within(_, _)
Within(selected, window) ==
  IF selected = <<>> THEN <<>>
  ELSE IF Head(selected).id \in Ids(window)
       THEN <<Head(selected)>> \o Within(Tail(selected), window)
       ELSE Within(Tail(selected), window)

\* the budget left once the header is paid for
AfterHeader(p) == cfg.maxPromptTokens - estimateTokens(HeaderOf(p).content)

\* C25: from the recent window (the last keepRecent messages, oldest first)
\* buildContext admits exactly the longest prefix in which each message's cost
\* estimateTokens(content) + 5 is at most the budget remaining after the header
\* and the messages admitted before it.
C25_RecentAdmission ==
  \A p \in Procs :
    Returned(p, "buildContext")
    => LET window == LastMessages(Before(p).messages, cfg.keepRecent)
       IN Within(procs[p].selected, window) = FittingPrefix(window, AfterHeader(p))

\* the messages older than the recent window, oldest first
OlderMessages(messages, keepRecent) ==
  SubSeq(messages, 1, Max(0, Len(messages) - keepRecent))

\* the longest run at the end of older in which each message's cost, taken from
\* the newest backwards, is at most the budget left by the newer ones
FittingRun(older, budget) == reverse(FittingPrefix(reverse(older), budget))

\* the budget left by a list of admitted messages
RECURSIVE Spend(_, _)
Spend(budget, admitted) ==
  IF admitted = <<>> THEN budget
  ELSE Spend(budget - estimateTokens(Head(admitted).content) - MessageOverhead,
             Tail(admitted))

\* C26: after the recent window buildContext admits, from the messages older
\* than the window, exactly the longest run immediately preceding the window
\* whose messages fit (newest first) in the budget the window left, places it
\* before the admitted recent messages, and so selects one contiguous run of
\* messages.
C26_OlderBackfill ==
  \A p \in Procs :
    Returned(p, "buildContext")
    => LET messages == Before(p).messages
           window == LastMessages(messages, cfg.keepRecent)
           older == OlderMessages(messages, cfg.keepRecent)
           recent == Within(procs[p].selected, window)
           run == FittingRun(older, Spend(AfterHeader(p), recent))
       IN /\ procs[p].selected = run \o recent
          /\ \E i \in 1..(Len(messages) + 1), j \in 0..Len(messages) :
               procs[p].selected = SubSeq(messages, i, j)

\* C27: buildContext returns a non-empty list whose first element is a system
\* message made of the configured system prompt followed (after the summary
\* label) by the thread's summary, or by '(none yet)' when the summary is empty;
\* every other element is drawn from messages, and the messages' costs fit in
\* the budget left once the header's cost is deducted.
C27_HeaderFirst ==
  \A p \in Procs :
    Returned(p, "buildContext")
    => LET context == procs[p].value
           header == context[1].content
           prompt == cfg.systemPrompt
           shown == SubSeq(header, Len(prompt) + Len(SummaryLabel) + 1, Len(header))
       IN /\ Len(context) >= 1
          /\ context[1].type = "system"
          /\ SubSeq(header, 1, Len(prompt)) = prompt
          /\ shown = (IF Before(p).summary = <<>> THEN <<"(none", " ", "yet)">>
                      ELSE Before(p).summary)
          /\ \A i \in 2..Len(context) :
               /\ context[i].type \in {"human", "ai"}
               /\ \E k \in 1..Len(Before(p).messages) :
                    /\ Before(p).messages[k] = procs[p].selected[i - 1]
                    /\ Before(p).messages[k].content = context[i].content
          /\ Len(context) = Len(procs[p].selected) + 1
          /\ procs[p].selected # <<>> => SumCosts(procs[p].selected) <= AfterHeader(p)

\* a context of a thread without summary: the placeholder, then messages
C27_Witness ==
  \E p \in Procs :
    /\ Returned(p, "buildContext")
    /\ Before(p).summary = <<>>
    /\ Len(procs[p].value) >= 3
    /\ procs[p].value[1].content = <<"Assist">> \o SummaryLabel \o <<"(none", " ", "yet)">>

\* the order of the functions generate goes through
TurnOrder ==
  { <<"addUserMessage", "maybeCompress">>, <<"maybeCompress", "buildContext">>,
    <<"buildContext", "generate">>, <<"generate", "addAssistantMessage">> }

\* C28: generate goes through append user message, compaction, context
\* assembly, reply call, append assistant message in this order, and the context
\* submitted for the reply is assembled from the state after compaction: it
\* holds none of the messages this turn's compaction removed, only stored
\* messages, and its header carries the summary the thread has after it.
C28_TurnOrdering ==
  [][\A p \in Procs :
       ( /\ procs[p].op = "generate"
         /\ procs'[p].op = "generate"
         /\ procs[p].pc # "idle"
         /\ procs'[p] # procs[p] )
       => /\ procs'[p].fn # procs[p].fn /\ procs'[p].pc # "idle"
               => <<procs[p].fn, procs'[p].fn>> \in TurnOrder
          /\ ( procs[p].fn = "addUserMessage" /\ procs'[p].fn = "maybeCompress" )
               => LET messages == heap[procs[p].loaded].messages
                  IN /\ messages # <<>>
                     /\ messages[Len(messages)].role = "user"
                     /\ messages[Len(messages)].content = procs[p].userInput
          /\ ( procs'[p].fn = "generate" /\ procs'[p].pc = "invoke" )
               => LET state == heap'[procs[p].loaded]
                      context == procs'[p].context
                  IN /\ context[1].content =
                          cfg.systemPrompt \o SummaryLabel \o
                            (IF state.summary = <<>> THEN NoneYet ELSE state.summary)
                     /\ Ids(procs'[p].selected) \cap Ids(procs'[p].chunk) = {}
                     /\ Ids(procs'[p].selected) \subseteq Ids(state.messages)
                     /\ procs[p].invocations = 1 => TrimmedReply(state.summary)
          /\ procs'[p].fn = "addAssistantMessage" => procs'[p].invocations >= 1]_vars

\* a reply call whose context was assembled after this turn's compaction
C28_Witness ==
  \E p \in Procs :
    /\ procs[p].op = "generate"
    /\ procs[p].fn = "generate"
    /\ procs[p].pc = "invoke"
    /\ procs[p].invocations = 2
    /\ procs[p].chunk # <<>>
    /\ Len(procs[p].context) >= 2
    /\ Stored(p).summary # Before(p).summary

\* the message p's generate call appended for its user input is in messages
UserMessageIn(p, messages) ==
  \E i \in 1..Len(messages) :
    /\ messages[i].role = "user"
    /\ messages[i].content = procs[p].userInput
    /\ messages[i].id \notin Ids(Before(p).messages)

\* C29: the user message appended by a generate call is still in the thread's
\* messages when the context for the reply has been assembled: the compaction
\* triggered in the same call does not remove it.
C29_UserMessageKept ==
  \A p \in Procs :
    ( /\ procs[p].op = "generate"
      /\ procs[p].fn = "generate"
      /\ procs[p].pc = "invoke" )
    => UserMessageIn(p, Stored(p).messages)

\* C30: when the context holds a message older than the recent window (the
\* last keepRecent messages), it holds every message more recent than that
\* one, in particular every message of the recent window.
C30_RecencyPriority ==
  \A p \in Procs :
    Returned(p, "buildContext")
    => LET messages == Before(p).messages
           chosen == Ids(procs[p].selected)
       IN \A i, j \in 1..Len(messages) :
            ( /\ i <= Len(messages) - cfg.keepRecent
              /\ messages[i].id \in chosen
              /\ i < j )
            => messages[j].id \in chosen

\* C31: no step of an initThread call, however it interleaves with other
\* initThread, append or generate calls on the same id, replaces a stored state
\* that holds messages or a non-empty summary by another one.
C31_InitKeepsHistory ==
  [][\A p \in Procs :
       ( /\ procs[p].op = "initThread"
         /\ procs'[p] # procs[p]
         /\ getThread(procs[p].tid) # 0
         /\ \/ Stored(p).messages # <<>>
            \/ Stored(p).summary # <<>> )
       => /\ procs[p].tid \in DOMAIN store'
          /\ heap'[store'[procs[p].tid]].messages = Stored(p).messages
          /\ heap'[store'[procs[p].tid]].summary = Stored(p).summary]_vars

\* C32: maybeCompress on a thread with no messages makes no completion call and
\* leaves the summary unchanged, whatever the positive compressAfterTokens.
C32_EmptyThreadNoCompaction ==
  \A p \in Procs :
    ( /\ procs[p].op = "maybeCompress"
      /\ procs[p].entry # <<>>
      /\ AtEntry(p).messages = <<>> )
    => /\ procs[p].invocations = 0
       /\ Stored(p).summary = AtEntry(p).summary

----------------------------------------------------------------------------
(* ResponseValidator.generateValidated (src/unnamed/part_003)              *)
(* A call is "initial" while it awaits the first invocation and "repair"   *)
(* while it awaits a repair invocation; calls on one validator interleave  *)
(* at these awaits and share its metrics.                                  *)

\* a repair loop that allows one attempt more than maxRetries
WithinRetriesInclusive(attempt, maxRetries) == attempt <= maxRetries + 1

\* the condition of the repair loop: attempt <= this.maxRetries
WithinRetries(attempt, maxRetries) == attempt <= maxRetries

\* the validator v once call c has ended with an outcome
Finish(v, c, outcome, value) ==
  [v EXCEPT !.calls[c].pc = "idle", !.calls[c].outcome = outcome,
            !.calls[c].value = value, !.finished = @ + 1]

\* the head of the repair loop: the next repair invocation, or all retries
\* exhausted
RepairLoop(v, c, attempt, lastError) ==
  IF WithinRetries(attempt, v.maxRetries)
  THEN [v EXCEPT !.metrics.retries = @ + 1,
                 !.calls[c].attempt = attempt,
                 !.calls[c].lastError = lastError,
                 !.calls[c].pc = "repair",
                 !.calls[c].invocations = @ + 1]
  ELSE Finish([v EXCEPT !.metrics.failed = @ + 1,
                        !.metrics.lastError = lastError,
                        !.metrics.latenciesMs = Append(@, now - v.calls[c].started),
                        !.calls[c].lastError = lastError],
              c, "ValidationFailed", lastError)

\* generateValidated(messages) up to its first await
CallGenerateValidated(c) ==
  /\ validator.calls[c].pc = "idle"
  /\ validator.metrics.total < MaxCalls
  /\ validator' = [validator EXCEPT
                     !.metrics.total = @ + 1,
                     !.calls[c] = [IdleCall EXCEPT !.pc = "initial", !.started = now,
                                                   !.invocations = 1]]
  /\ UNCHANGED <<tool, cfg, heap, store, procs, now, uuids, hist>>

\* the first invocation resolves: return the parsed output or enter the loop
InitialArrives(c) ==
  /\ validator.calls[c].pc = "initial"
  /\ \E text \in ModelOutputs :
       LET v == [validator EXCEPT !.calls[c].outputs = Append(@, text)]
           parsed == safeParse(text)
       IN validator' =
            IF parsed.ok
            THEN Finish([v EXCEPT !.metrics.success = @ + 1,
                                  !.metrics.latenciesMs =
                                     Append(@, now - v.calls[c].started)],
                        c, "returned", parsed.data)
            ELSE RepairLoop(v, c, 1, parsed.error)
  /\ UNCHANGED <<tool, cfg, heap, store, procs, now, uuids, hist>>

\* a repair invocation resolves: return the parsed output or go round the loop
RepairArrives(c) ==
  /\ validator.calls[c].pc = "repair"
  /\ \E text \in ModelOutputs :
       LET v == [validator EXCEPT !.calls[c].outputs = Append(@, text)]
           parsed == safeParse(text)
       IN validator' =
            IF parsed.ok
            THEN Finish([v EXCEPT !.metrics.success = @ + 1,
                                  !.metrics.repaired = @ + 1,
                                  !.metrics.latenciesMs =
                                     Append(@, now - v.calls[c].started)],
                        c, "returned", parsed.data)
            ELSE RepairLoop(v, c, v.calls[c].attempt + 1, parsed.error)
  /\ UNCHANGED <<tool, cfg, heap, store, procs, now, uuids, hist>>

\* model.invoke rejects: neither await is inside a try, so the call rejects
InvokeFails(c) ==
  /\ validator.calls[c].pc \in {"initial", "repair"}
  /\ validator' = Finish(validator, c, "InvocationFailed", "")
  /\ UNCHANGED <<tool, cfg, heap, store, procs, now, uuids, hist>>

\* no conversation going on
NoConversation ==
  /\ cfg = Options(40, 9, 8, <<"Assist">>)
  /\ heap = <<>>
  /\ store = <<>>
  /\ procs = [p \in Procs |-> IdleProc]
  /\ uuids = 0
  /\ hist = [appended |-> {}, covered |-> <<>>, calls |-> 0]

\* a validator just constructed with one of RetryOptions
InitVal ==
  \E maxRetries \in RetryOptions :
    /\ NoConversation
    /\ now = 0
    /\ validator = NewValidator(maxRetries)
    /\ tool = IdleTool

NextVal ==
  \/ Tick
  \/ \E c \in Procs :
       \/ CallGenerateValidated(c)
       \/ InitialArrives(c)
       \/ RepairArrives(c)
       \/ InvokeFails(c)

SpecVal == InitVal /\ [][NextVal]_vars

\* outputs that parse as JSON and satisfy the schema
ValidOutputs == {"json", "fenced json"}

\* the outputs call c received before its latest one were all invalid
EarlierInvalid(c) ==
  \A i \in 1..(Len(validator.calls[c].outputs) - 1) :
    validator.calls[c].outputs[i] \notin ValidOutputs

\* C33: one generateValidated call invokes the model at most 1 + maxRetries
\* times; a call that returned has received exactly as many outputs as it made
\* invocations, the last one valid (and returned, parsed) and every earlier one
\* invalid; a call that threw the validation failure has made 1 + maxRetries
\* invocations and every output was invalid.
C33_BoundedRepair ==
  \A c \in Procs :
    LET call == validator.calls[c]
        n == Len(call.outputs)
    IN /\ call.invocations <= 1 + validator.maxRetries
       /\ EarlierInvalid(c)
       /\ call.outcome = "returned" =>
            /\ n = call.invocations
            /\ call.outputs[n] \in ValidOutputs
            /\ call.value = "json"
       /\ call.outcome = "ValidationFailed" =>
            /\ n = 1 + validator.maxRetries
            /\ call.invocations = n
            /\ call.outputs[n] \notin ValidOutputs

\* a call returned at its first repair with a retry left, and another threw
\* after the initial attempt and both repairs
C33_Witness ==
  /\ validator.maxRetries = 2
  /\ \E c, d \in Procs :
       /\ validator.calls[c].outcome = "returned"
       /\ validator.calls[c].invocations = 2
       /\ validator.calls[d].outcome = "ValidationFailed"
       /\ validator.calls[d].invocations = 3

\* C34: whenever no generateValidated call is in flight and at least one has
\* finished (returned, threw the validation failure, or was rejected by a
\* failing model invocation), total = success + failed, repaired <= success,
\* retries <= total * maxRetries, and latenciesMs has one entry per finished
\* call.
C34_MetricsAccounting ==
  LET m == validator.metrics
  IN ( /\ \A c \in Procs : validator.calls[c].pc = "idle"
       /\ validator.finished >= 1 )
     => /\ m.total = m.success + m.failed
        /\ m.repaired <= m.success
        /\ m.retries <= m.total * validator.maxRetries
        /\ Len(m.latenciesMs) = validator.finished

----------------------------------------------------------------------------
(* resilientTool.func (src/src/tools/advanced-patterns.ts)                 *)
(* A call is at "operation" while it awaits the race of the operation and  *)
(* the timer, and at "backoff" while it awaits the backoff timer.          *)

RECURSIVE Pow2(_)
\* Math.pow(2, n)
Pow2(n) == IF n <= 0 THEN 1 ELSE 2 * Pow2(n - 1)

\* a backoff after every failed attempt, the last one included
BackoffAlways(attempt, retry_count) == attempt <= retry_count

\* the test before the backoff: attempt < retry_count
BackoffDue(attempt, retry_count) == attempt < retry_count

\* the head of the loop: the operation of the given attempt, or the failure
\* string once attempt exceeds retry_count
AttemptLoop(t, attempt) ==
  IF attempt <= t.retry_count
  THEN [t EXCEPT !.attempt = attempt, !.pc = "operation", !.attempts = @ + 1]
  ELSE [t EXCEPT !.attempt = attempt, !.pc = "idle", !.outcome = "returned",
                 !.value = <<"Failed after", t.retry_count, t.lastError>>]

\* func({ operation, retry_count, timeout }) up to its first await
CallResilientTool ==
  /\ tool.pc = "idle"
  /\ tool.calls < MaxCalls
  /\ \E operation \in Operations, retry_count \in RetryCounts :
       tool' = AttemptLoop([IdleTool EXCEPT !.operation = operation,
                                            !.retry_count = retry_count,
                                            !.calls = tool.calls + 1], 1)
  /\ UNCHANGED <<validator, cfg, heap, store, procs, now, uuids, hist>>

\* performOperation resolves first
OperationSucceeds ==
  /\ tool.pc = "operation"
  /\ tool' = [tool EXCEPT !.pc = "idle", !.outcome = "returned",
                          !.value = <<"Success", <<"Completed", tool.operation>>>>]
  /\ UNCHANGED <<validator, cfg, heap, store, procs, now, uuids, hist>>

\* performOperation rejects, or the timer does first: the catch block
OperationFails ==
  /\ tool.pc = "operation"
  /\ \E message \in {"Random failure", "Timeout"} :
       LET t == [tool EXCEPT !.lastError = message,
                             !.log = Append(@, <<tool.attempt, message>>)]
       IN tool' = IF BackoffDue(t.attempt, t.retry_count)
                  THEN [t EXCEPT !.pc = "backoff",
                                 !.waits = Append(@, Pow2(t.attempt) * 1000)]
                  ELSE AttemptLoop(t, t.attempt + 1)
  /\ UNCHANGED <<validator, cfg, heap, store, procs, now, uuids, hist>>

\* the backoff timer fires: attempt++ and the loop's test
BackoffEnds ==
  /\ tool.pc = "backoff"
  /\ tool' = AttemptLoop(tool, tool.attempt + 1)
  /\ UNCHANGED <<validator, cfg, heap, store, procs, now, uuids, hist>>

\* the tool before any call
InitTool ==
  /\ NoConversation
  /\ now = 0
  /\ validator = NewValidator(2)
  /\ tool = IdleTool

NextTool ==
  \/ CallResilientTool
  \/ OperationSucceeds
  \/ OperationFails
  \/ BackoffEnds

SpecTool == InitTool /\ [][NextTool]_vars

\* C35: a resilient_processor call performs at most retry_count attempts; a
\* finished call has returned, never thrown: either a 'Success: ...' string of
\* the operation, every earlier attempt having failed, or, after retry_count
\* failed attempts, a 'Failed after ...' string; a backoff of 2^attempt seconds
\* is waited after each failed attempt that another attempt follows, and none
\* after the last attempt.
C35_ResilientRetry ==
  LET r == tool.retry_count
      a == tool.attempts
  IN /\ a <= r
     /\ \A i \in 1..Len(tool.waits) : tool.waits[i] = Pow2(i) * 1000
     /\ tool.pc = "operation" => Len(tool.log) = a - 1 /\ Len(tool.waits) = a - 1
     /\ tool.pc = "backoff" => Len(tool.log) = a /\ Len(tool.waits) = a /\ a < r
     /\ (tool.pc = "idle" /\ tool.calls >= 1) =>
          /\ tool.outcome = "returned"
          /\ \/ /\ tool.value = <<"Success", <<"Completed", tool.operation>>>>
                /\ a >= 1
                /\ Len(tool.log) = a - 1
                /\ Len(tool.waits) = a - 1
             \/ /\ tool.value[1] = "Failed after"
                /\ tool.value[2] = r
                /\ a = r
                /\ Len(tool.log) = r
                /\ Len(tool.waits) = Max(r - 1, 0)

\* a call with retry_count 3 that failed three times and waited twice
C35_Witness ==
  /\ tool.pc = "idle"
  /\ tool.retry_count = 3
  /\ tool.outcome = "returned"
  /\ tool.value = <<"Failed after", 3, "Timeout">>
  /\ tool.waits = <<2000, 4000>>
  /\ Len(tool.log) = 3

====
